---- MODULE Spec2Model ----
(***************************************************************************)
(* Fall-detection API server (src/flask/app.py): the ingestion pipeline    *)
(* POST /fall_event -> log_event, its two stores (the flat file            *)
(* fall_events.csv and the MongoDB collection), the Twilio notification    *)
(* call, and the read handlers GET /events, GET /status and GET /.         *)
(*                                                                         *)
(* Requests are served by concurrent handler threads (the development      *)
(* server of app.run is threaded); every access to shared state (clock,    *)
(* file, collection, provider) is a separate step of a handler.            *)
(*                                                                         *)
(* Spec is the server started by __main__ (file with its header, empty     *)
(* collection) handling reports and reads; FairSpec adds the fairness of   *)
(* the handler threads; SpecStored is the read handlers over the stores an *)
(* earlier run may have left (older rows and documents, an empty file).    *)
(*                                                                         *)
(* JSON / Python values are tagged records [type, val]; the Python text of *)
(* a value (what csv.writer writes) is computed by CsvField.               *)
(***************************************************************************)
EXTENDS Integers, Sequences, FiniteSets, TLC

\* ------------------------------------------------------------------ bounds
\* Total number of reports POSTed in one behaviour.
MaxReports == 2
\* Last tick of the wall clock.
MaxTime == 2
\* Most rows (after the header) of a flat file found at startup.
MaxStoredRows == 2

\* ------------------------------------------------------- program constants
\* events[:20] / .limit(20)
PageSize == 20
\* strftime('%Y-%m-%d %H:%M:%S %Z') drops the sub-second part of the clock:
\* the clock ticks TicksPerSecond times per displayed second.
TicksPerSecond == 2

\* Concurrent request-handler threads.
Handlers == {1, 2}

\* ------------------------------------------------------------ value model
JTrue == [type |-> "bool", val |-> "True"]
JFalse == [type |-> "bool", val |-> "False"]
JNull == [type |-> "null", val |-> "None"]
JStr(s) == [type |-> "str", val |-> s]

\* Python truthiness, as used by `if detection and ...`.
Truthy(v) ==
    CASE v.type = "bool" -> v.val = "True"
      [] v.type = "null" -> FALSE
      [] OTHER -> v.val # ""

\* csv.writer.writerow: None is written as the empty field, anything else
\* as str(value).
CsvField(v) == IF v.type = "null" THEN "" ELSE v.val

\* Mutant of Get: the default is dropped, as data.get(key) would do.
Get_NoDefault(d, key, default) == IF key \in DOMAIN d THEN d[key] ELSE JNull

\* dict.get(key, default): the default is used only when the key is absent.
Get(d, key, default) == IF key \in DOMAIN d THEN d[key] ELSE default

\* get_current_timestamp(): the clock formatted to whole seconds.
get_current_timestamp(t) == t \div TicksPerSecond

\* get_current_datetime(): the clock at full resolution.
get_current_datetime(t) == t

\* The header row written by initialize_csv.
CsvHeader == <<"timestamp", "detection", "alert_type", "device_id", "sms_sent">>

\* ------------------------------------------------------------------ inputs
\* request.json of a report: a JSON object with any of the three keys, or a
\* JSON value that is not an object.
ObjectPayloads ==
    { [detect |-> JTrue, type |-> JStr("real alert"), device_id |-> JStr("esp-7")],
      [detect |-> JTrue, type |-> JStr("false alert"), device_id |-> JStr("esp-7")],
      [detect |-> JFalse],
      [type |-> JStr("real alert"), device_id |-> JStr("esp-7")],
      [detect |-> JStr("no"), type |-> JStr("real alert"), device_id |-> JNull] }

Payloads ==
    { [kind |-> "object", fields |-> f] : f \in ObjectPayloads }
        \cup { [kind |-> "array"] }

NoPayload == [kind |-> "none"]
NoResponse == [status |-> "none"]
NoReport == [h |-> 0]

VARIABLES
    MONGO_AVAILABLE,   \* set once at import (lines 46-56)
    TWILIO_AVAILABLE,  \* set once at import (lines 35-43)
    now,               \* wall clock, in ticks, at its last reading
    csv_exists,        \* os.path.exists(CSV_FILE)
    csvfile,           \* lines of fall_events.csv, header first
    events_collection, \* documents of the collection, in insertion order
    received,          \* reports POSTed so far
    pc,                \* per handler: position in fall_event / log_event
    data,              \* per handler: request.json
    detected,          \* per handler: locals of fall_event / log_event
    alert_type,
    device_id,
    timestamp,
    sms_sent,
    sms_success,       \* per handler: what send_sms_alert returned (line 101)
    response,          \* per handler: the response of POST /fall_event
    sendCalls,         \* per handler: calls of send_sms_alert for this report
    contacted,         \* per handler: twilio_client.messages.create was called
    rowsWritten,       \* per handler: line numbers this report appended to the file
    docsWritten,       \* per handler: _id of the documents this report inserted
    mongoOutcome,      \* per handler: "none", or how insert_one ended
    trace,             \* per handler: the steps of log_event taken, in order
    lastReport,        \* the report handled with no other report since it began
    eventsResp,        \* the response of GET /events, in the step that returns it
    statusResp,        \* the response of GET /status, in the step that returns it
    indexResp          \* the outcome of GET /, in the step that ends it

handlerVars == <<pc, data, detected, alert_type, device_id, timestamp, sms_sent,
                 sms_success, response, sendCalls, contacted, rowsWritten,
                 docsWritten, mongoOutcome, trace>>
vars == <<MONGO_AVAILABLE, TWILIO_AVAILABLE, now, csv_exists, csvfile,
          events_collection,
          received, pc, data, detected, alert_type, device_id, timestamp,
          sms_sent, sms_success, response, sendCalls, contacted, rowsWritten,
          docsWritten, mongoOutcome, trace, lastReport, eventsResp, statusResp,
          indexResp>>

\* ------------------------------------------------------------- log_event
\* line 100: `if detection and alert_type == "real alert"`.
ShouldNotify(detection, type) == Truthy(detection) /\ type = JStr("real alert")

\* Mutant of SmsStatus: the attempt is recorded as sent whatever it returned.
SmsStatus_AlwaysYes(success) == "Yes"

\* line 102: `"Yes" if sms_success else "Failed"`.
SmsStatus(success) == IF success THEN "Yes" ELSE "Failed"

\* line 107: the row handed to writer.writerow, as the text csv writes.
CsvRow(ts, detection, type, device, sms) ==
    <<ts, CsvField(detection), CsvField(type), CsvField(device), sms>>

\* Mutant of EventDoc: timestamp_str is formatted anew from the clock reading
\* of line 113 instead of being the timestamp of line 96.
EventDoc_Restamped(id, dt, ts, detection, type, device, sms) ==
    [_id |-> id, timestamp |-> dt, timestamp_str |-> get_current_timestamp(dt),
     device_id |-> device, detection |-> detection, alert_type |-> type,
     sms_sent |-> JStr(sms)]

\* lines 112-119: event_doc, with the _id insert_one assigns.
EventDoc(id, dt, ts, detection, type, device, sms) ==
    [_id |-> id, timestamp |-> dt, timestamp_str |-> ts, device_id |-> device,
     detection |-> detection, alert_type |-> type, sms_sent |-> JStr(sms)]

\* Mutant of ErrorResponse: no except clause; the exception leaves fall_event.
ErrorResponse_Uncaught(e) == [status |-> "unhandled", exception |-> e]

\* lines 343-347 and 350: the two responses of POST /fall_event.
SuccessResponse(sms) == [status |-> "success", code |-> 200, sms_alert |-> sms]
ErrorResponse(e) == [status |-> "error", code |-> 500, message |-> e]

\* Mutant of InsertRaised: the exception of insert_one reaches line 348.
InsertRaised_Propagates(sms) == ErrorResponse("PyMongoError")

\* lines 122-125: the except clause prints the exception of insert_one and
\* log_event returns sms_sent, so the report is answered with success.
InsertRaised(sms) == SuccessResponse(sms)

\* Mutant of LogEventHead: the timestamp is taken after the notify decision.
LogEventHead_ClassifyFirst == <<"classify", "timestamp">>

\* lines 96-100: log_event first takes the timestamp (line 96), then decides
\* whether to notify (line 100).
LogEventHead == <<"timestamp", "classify">>

Active(h) == pc[h] \notin {"idle", "done"}

\* A request is given to the first thread that is free (the threads are
\* interchangeable); a thread that has answered keeps its response until then.
FirstFree(h) == ~Active(h) /\ \A o \in Handlers : o < h => Active(o)

Init ==
    /\ MONGO_AVAILABLE \in BOOLEAN
    /\ TWILIO_AVAILABLE \in BOOLEAN
    /\ now = 0
    /\ csv_exists = TRUE
    /\ csvfile = <<CsvHeader>>
    /\ events_collection = <<>>
    /\ received = 0
    /\ pc = [h \in Handlers |-> "idle"]
    /\ data = [h \in Handlers |-> NoPayload]
    /\ detected = [h \in Handlers |-> JFalse]
    /\ alert_type = [h \in Handlers |-> JStr("unknown")]
    /\ device_id = [h \in Handlers |-> JStr("unknown")]
    /\ timestamp = [h \in Handlers |-> 0]
    /\ sms_sent = [h \in Handlers |-> "No"]
    /\ response = [h \in Handlers |-> NoResponse]
    /\ sendCalls = [h \in Handlers |-> 0]
    /\ contacted = [h \in Handlers |-> FALSE]
    /\ sms_success = [h \in Handlers |-> FALSE]
    /\ rowsWritten = [h \in Handlers |-> {}]
    /\ docsWritten = [h \in Handlers |-> {}]
    /\ mongoOutcome = [h \in Handlers |-> "none"]
    /\ trace = [h \in Handlers |-> <<>>]
    /\ lastReport = NoReport
    /\ eventsResp = NoResponse
    /\ statusResp = NoResponse
    /\ indexResp = NoResponse

\* A step that answers none of GET /events, GET /status and GET /.
NoOutput ==
    /\ eventsResp' = NoResponse
    /\ statusResp' = NoResponse
    /\ indexResp' = NoResponse

\* A reading of the wall clock: the clock has not gone back since the last
\* reading (now), and MaxTime is its last tick.
ClockReadings == now..MaxTime

\* fall_event, lines 331-336, for a payload that is no JSON object:
\* data.get raises AttributeError, caught at line 348. (No local of the
\* handler is bound; the variables hold their initial values.)
ReceiveMalformed(h) ==
    /\ FirstFree(h)
    /\ received < MaxReports
    /\ \E p \in Payloads :
        /\ p.kind # "object"
        /\ data' = [data EXCEPT ![h] = p]
    /\ received' = received + 1
    /\ response' = [response EXCEPT ![h] = ErrorResponse("AttributeError")]
    /\ pc' = [pc EXCEPT ![h] = "done"]
    /\ lastReport' = NoReport
    /\ sendCalls' = [sendCalls EXCEPT ![h] = 0]
    /\ contacted' = [contacted EXCEPT ![h] = FALSE]
    /\ sms_success' = [sms_success EXCEPT ![h] = FALSE]
    /\ rowsWritten' = [rowsWritten EXCEPT ![h] = {}]
    /\ docsWritten' = [docsWritten EXCEPT ![h] = {}]
    /\ mongoOutcome' = [mongoOutcome EXCEPT ![h] = "none"]
    /\ detected' = [detected EXCEPT ![h] = JFalse]
    /\ alert_type' = [alert_type EXCEPT ![h] = JStr("unknown")]
    /\ device_id' = [device_id EXCEPT ![h] = JStr("unknown")]
    /\ timestamp' = [timestamp EXCEPT ![h] = 0]
    /\ sms_sent' = [sms_sent EXCEPT ![h] = "No"]
    /\ trace' = [trace EXCEPT ![h] = <<>>]
    /\ UNCHANGED <<MONGO_AVAILABLE, TWILIO_AVAILABLE, csv_exists, now, csvfile,
                   events_collection>>
    /\ NoOutput

\* fall_event, lines 331-341, and the head of log_event, lines 96-100: the
\* fields are extracted, the timestamp is taken and sms_sent starts as "No".
Receive(h) ==
    /\ FirstFree(h)
    /\ received < MaxReports
    /\ \E p \in Payloads :
        /\ p.kind = "object"
        /\ data' = [data EXCEPT ![h] = p]
        /\ detected' = [detected EXCEPT ![h] = Get(p.fields, "detect", JFalse)]
        /\ alert_type' = [alert_type EXCEPT ![h] = Get(p.fields, "type", JStr("unknown"))]
        /\ device_id' = [device_id EXCEPT ![h] = Get(p.fields, "device_id", JStr("unknown"))]
    /\ received' = received + 1
    /\ \E t \in ClockReadings :
        /\ now' = t
        /\ timestamp' = [timestamp EXCEPT ![h] = get_current_timestamp(t)]
    /\ sms_sent' = [sms_sent EXCEPT ![h] = "No"]
    /\ trace' = [trace EXCEPT ![h] = LogEventHead]
    /\ response' = [response EXCEPT ![h] = NoResponse]
    /\ sendCalls' = [sendCalls EXCEPT ![h] = 0]
    /\ contacted' = [contacted EXCEPT ![h] = FALSE]
    /\ sms_success' = [sms_success EXCEPT ![h] = FALSE]
    /\ rowsWritten' = [rowsWritten EXCEPT ![h] = {}]
    /\ docsWritten' = [docsWritten EXCEPT ![h] = {}]
    /\ mongoOutcome' = [mongoOutcome EXCEPT ![h] = "none"]
    /\ pc' = [pc EXCEPT ![h] =
                IF ShouldNotify(detected'[h], alert_type'[h]) THEN "notify" ELSE "open"]
    /\ lastReport' =
            IF \A o \in Handlers \ {h} : ~Active(o)
            THEN [h |-> h, completed |-> FALSE, detection |-> detected'[h],
                  alert_type |-> alert_type'[h], device_id |-> device_id'[h]]
            ELSE NoReport
    /\ UNCHANGED <<MONGO_AVAILABLE, TWILIO_AVAILABLE, csv_exists, csvfile,
                   events_collection>>
    /\ NoOutput

\* send_sms_alert, lines 77-92, called from line 101, and line 102. Without
\* a Twilio client it returns False at once; otherwise the provider is
\* contacted and either accepts the message or raises.
Notify(h) ==
    /\ pc[h] = "notify"
    /\ sendCalls' = [sendCalls EXCEPT ![h] = @ + 1]
    /\ IF ~TWILIO_AVAILABLE
       THEN /\ sms_success' = [sms_success EXCEPT ![h] = FALSE]
            /\ UNCHANGED contacted
       ELSE /\ contacted' = [contacted EXCEPT ![h] = TRUE]
            /\ \E accepted \in BOOLEAN :
                sms_success' = [sms_success EXCEPT ![h] = accepted]
    /\ sms_sent' = [sms_sent EXCEPT ![h] = SmsStatus(sms_success'[h])]
    /\ trace' = [trace EXCEPT ![h] = Append(@, "notify")]
    /\ pc' = [pc EXCEPT ![h] = "open"]
    /\ UNCHANGED <<MONGO_AVAILABLE, TWILIO_AVAILABLE, csv_exists, now, csvfile,
                   events_collection, received, data, detected, alert_type,
                   device_id, timestamp, response, rowsWritten, docsWritten,
                   mongoOutcome, lastReport>>
    /\ NoOutput

\* line 105: open(CSV_FILE, 'a'). The file is now open for appending (and
\* exists, if it did not).
CsvOpen(h) ==
    /\ pc[h] = "open"
    /\ pc' = [pc EXCEPT ![h] = "write"]
    /\ csv_exists' = TRUE
    /\ UNCHANGED <<MONGO_AVAILABLE, TWILIO_AVAILABLE, now, csvfile, trace,
                   events_collection, received, data, detected, alert_type,
                   device_id, timestamp, sms_sent, sms_success, response,
                   sendCalls, contacted, rowsWritten, docsWritten, mongoOutcome,
                   lastReport>>
    /\ NoOutput

\* line 105 when open raises (OSError): the exception leaves log_event and is
\* caught at line 348.
CsvOpenFails(h) ==
    /\ pc[h] = "open"
    /\ response' = [response EXCEPT ![h] = ErrorResponse("OSError")]
    /\ pc' = [pc EXCEPT ![h] = "done"]
    /\ lastReport' = NoReport
    /\ UNCHANGED <<MONGO_AVAILABLE, TWILIO_AVAILABLE, csv_exists, now, csvfile, trace,
                   events_collection, received, data, detected, alert_type,
                   device_id, timestamp, sms_sent, sms_success, sendCalls,
                   contacted, rowsWritten, docsWritten, mongoOutcome>>
    /\ NoOutput

\* log_event has returned and the report is answered (lines 125, 343-347).
Answer(h, resp) ==
    /\ response' = [response EXCEPT ![h] = resp]
    /\ pc' = [pc EXCEPT ![h] = "done"]
    /\ lastReport' = IF lastReport.h = h /\ resp.status = "success"
                     THEN [lastReport EXCEPT !.completed = TRUE]
                     ELSE NoReport

\* lines 106-107 and the end of the with block: the row is written and the
\* file closed. Without MongoDB log_event returns here.
CsvWriteRow(h) ==
    /\ pc[h] = "write"
    /\ csvfile' = Append(csvfile, CsvRow(timestamp[h], detected[h], alert_type[h],
                                         device_id[h], sms_sent[h]))
    /\ rowsWritten' = [rowsWritten EXCEPT ![h] = @ \cup {Len(csvfile) + 1}]
    /\ trace' = [trace EXCEPT ![h] = Append(@, "csv")]
    /\ IF MONGO_AVAILABLE
       THEN /\ pc' = [pc EXCEPT ![h] = "mongo"]
            /\ UNCHANGED <<response, lastReport>>
       ELSE Answer(h, SuccessResponse(sms_sent[h]))
    /\ UNCHANGED <<MONGO_AVAILABLE, TWILIO_AVAILABLE, csv_exists, now, events_collection,
                   received, data, detected, alert_type, device_id, timestamp,
                   sms_sent, sms_success, sendCalls, contacted, docsWritten,
                   mongoOutcome>>
    /\ NoOutput

\* lines 110-125: the document is built and inserted; an exception of
\* insert_one is printed and swallowed.
LogMongo(h) ==
    /\ pc[h] = "mongo"
    /\ \E inserted \in BOOLEAN, t \in ClockReadings :
        /\ now' = t
        /\ trace' = [trace EXCEPT ![h] = Append(@, "mongo")]
        /\ IF inserted
           THEN /\ events_collection' =
                    Append(events_collection,
                           EventDoc(Len(events_collection) + 1,
                                    get_current_datetime(t), timestamp[h],
                                    detected[h], alert_type[h], device_id[h],
                                    sms_sent[h]))
                /\ docsWritten' = [docsWritten EXCEPT ![h] =
                                        @ \cup {Len(events_collection) + 1}]
                /\ mongoOutcome' = [mongoOutcome EXCEPT ![h] = "ok"]
                /\ Answer(h, SuccessResponse(sms_sent[h]))
           ELSE /\ UNCHANGED <<events_collection, docsWritten>>
                /\ mongoOutcome' = [mongoOutcome EXCEPT ![h] = "threw"]
                /\ Answer(h, InsertRaised(sms_sent[h]))
    /\ UNCHANGED <<MONGO_AVAILABLE, TWILIO_AVAILABLE, csv_exists, csvfile, received,
                   data, detected, alert_type, device_id, timestamp, sms_sent,
                   sms_success, sendCalls, contacted, rowsWritten>>
    /\ NoOutput

\* ------------------------------------------------------------ read paths
\* seq[:n]
Take(seq, n) == IF Len(seq) <= n THEN seq ELSE SubSeq(seq, 1, n)

\* list.reverse()
Reverse(seq) == [i \in 1..Len(seq) |-> seq[Len(seq) + 1 - i]]

\* lines 266-270: the two appends that pad an older, shorter row.
PadRow(row) ==
    LET withDevice == IF Len(row) < 4 THEN Append(row, "unknown") ELSE row
    IN  IF Len(withDevice) < 5 THEN Append(withDevice, "No") ELSE withDevice

\* line 260: next(reader) raises StopIteration on a file that exists and has
\* no line.
HeaderMissing == csv_exists /\ Len(csvfile) = 0

\* get_events_from_csv, lines 255-271: nothing when the file does not exist;
\* otherwise the rows after the first line, newest first, at most 20, padded.
get_events_from_csv(file) ==
    IF ~csv_exists THEN <<>>
    ELSE LET rows == Take(Reverse(Tail(file)), PageSize)
         IN  [i \in 1..Len(rows) |-> PadRow(rows[i])]

\* lines 297-307 / 312-322: the dictionary built from one row of the file.
CsvEventDict(e) ==
    [k \in {"timestamp", "detection", "alert_type"}
            \cup (IF Len(e) > 3 THEN {"device_id"} ELSE {})
            \cup (IF Len(e) > 4 THEN {"sms_sent"} ELSE {}) |->
        CASE k = "timestamp" -> e[1]
          [] k = "detection" -> JStr(e[2])
          [] k = "alert_type" -> JStr(e[3])
          [] k = "device_id" -> JStr(e[4])
          [] OTHER -> JStr(e[5])]

\* lines 284-291: the dictionary built from one document.
MongoEventDict(event) ==
    [timestamp |-> Get(event, "timestamp_str", Get(event, "timestamp", JNull)),
     detection |-> Get(event, "detection", JNull),
     alert_type |-> Get(event, "alert_type", JStr("unknown")),
     device_id |-> Get(event, "device_id", JStr("unknown")),
     sms_sent |-> Get(event, "sms_sent", JStr("No")),
     _id |-> Get(event, "_id", JNull)]

\* find().sort('timestamp', -1): every ordering of the documents by
\* descending timestamp (the order among equal timestamps is not determined).
SortedByTimestampDesc(coll) ==
    { [i \in 1..Len(coll) |-> coll[p[i]]] : p \in
        { q \in Permutations(1..Len(coll)) :
            \A i, j \in 1..Len(coll) :
                i < j => coll[q[i]].timestamp >= coll[q[j]].timestamp } }

\* The report a read follows: the one handled successfully with no other
\* report between its receipt and the read.
Preceding ==
    IF lastReport.h # 0 THEN (IF lastReport.completed THEN lastReport ELSE NoReport)
    ELSE NoReport

\* events(), lines 279-291 and 324: the primary store is read.
EventsFromMongo ==
    /\ MONGO_AVAILABLE
    /\ \E sorted \in SortedByTimestampDesc(events_collection) :
        LET page == Take(sorted, PageSize)
        IN  eventsResp' = [status |-> "ok", code |-> 200, source |-> "mongodb",
                           body |-> [i \in 1..Len(page) |-> MongoEventDict(page[i])],
                           after |-> Preceding]
    /\ UNCHANGED <<MONGO_AVAILABLE, TWILIO_AVAILABLE, csv_exists, now, csvfile,
                   events_collection, received, handlerVars, lastReport>>
    /\ statusResp' = NoResponse
    /\ indexResp' = NoResponse

\* lines 297-307 / 312-322: e[2] raises IndexError for a row that has fewer
\* than three fields after the padding.
RowTooShort(file) ==
    \E i \in 1..Len(get_events_from_csv(file)) : Len(get_events_from_csv(file)[i]) < 3

\* events(), lines 292-307 (find raised) and 308-324 (no MongoDB): the flat
\* file is read; an exception while reading it is answered with 500 (line 326).
EventsFromCsv ==
    /\ IF HeaderMissing
       THEN eventsResp' = [status |-> "error", code |-> 500, source |-> "csv",
                           body |-> <<>>, after |-> Preceding]
       ELSE IF RowTooShort(csvfile)
       THEN eventsResp' = [status |-> "error", code |-> 500, source |-> "csv",
                           body |-> <<>>, after |-> Preceding]
       ELSE LET csv_events == get_events_from_csv(csvfile)
            IN  eventsResp' =
                    [status |-> "ok", code |-> 200, source |-> "csv",
                     body |-> [i \in 1..Len(csv_events) |-> CsvEventDict(csv_events[i])],
                     after |-> Preceding]
    /\ UNCHANGED <<MONGO_AVAILABLE, TWILIO_AVAILABLE, csv_exists, now, csvfile,
                   events_collection, received, handlerVars, lastReport>>
    /\ statusResp' = NoResponse
    /\ indexResp' = NoResponse

\* GET /events.
Events == EventsFromMongo \/ EventsFromCsv

\* Mutant of StatusBody: the two database labels are swapped.
StatusBody_Swapped(record_count, source) ==
    [status |-> "online", records_count |-> record_count, source |-> source,
     database |-> IF MONGO_AVAILABLE THEN "csv" ELSE "mongodb",
     mongo_status |-> IF MONGO_AVAILABLE THEN "disconnected" ELSE "connected",
     twilio_status |-> IF TWILIO_AVAILABLE THEN "connected" ELSE "disconnected"]

\* lines 379-387: the body of the status response (source: the store the
\* count was read from).
StatusBody(record_count, source) ==
    [status |-> "online", records_count |-> record_count, source |-> source,
     database |-> IF MONGO_AVAILABLE THEN "mongodb" ELSE "csv",
     mongo_status |-> IF MONGO_AVAILABLE THEN "connected" ELSE "disconnected",
     twilio_status |-> IF TWILIO_AVAILABLE THEN "connected" ELSE "disconnected"]

\* api_status(), lines 367-369: the count of the primary store.
StatusFromMongo ==
    /\ MONGO_AVAILABLE
    /\ statusResp' = StatusBody(Len(events_collection), "mongodb")
    /\ UNCHANGED <<MONGO_AVAILABLE, TWILIO_AVAILABLE, csv_exists, now, csvfile,
                   events_collection, received, handlerVars, lastReport>>
    /\ eventsResp' = NoResponse
    /\ indexResp' = NoResponse

\* lines 372-373 / 376-377: the lines of the file minus one for the header;
\* record_count stays 0 when the file does not exist.
CsvRecordCount == IF csv_exists THEN Len(csvfile) - 1 ELSE 0

\* api_status(), lines 370-377: count_documents raised, or no MongoDB: the
\* count is taken from the file.
StatusFromCsv ==
    /\ statusResp' = StatusBody(CsvRecordCount, "csv")
    /\ UNCHANGED <<MONGO_AVAILABLE, TWILIO_AVAILABLE, csv_exists, now, csvfile,
                   events_collection, received, handlerVars, lastReport>>
    /\ eventsResp' = NoResponse
    /\ indexResp' = NoResponse

\* GET /status.
api_status == StatusFromMongo \/ StatusFromCsv

\* str(value) of Python.
PyStr(v) == v.val

\* lines 137-143: the row of the dashboard built from one document.
MongoEventRow(event) ==
    <<Get(event, "timestamp_str", Get(event, "timestamp", JNull)),
      PyStr(Get(event, "detection", JNull)),
      Get(event, "alert_type", JStr("unknown")),
      Get(event, "device_id", JStr("unknown")),
      Get(event, "sms_sent", JStr("No"))>>

\* index(), lines 132-143 and 152: the dashboard is rendered from the
\* primary store.
IndexFromMongo ==
    /\ MONGO_AVAILABLE
    /\ \E sorted \in SortedByTimestampDesc(events_collection) :
        LET page == Take(sorted, PageSize)
        IN  indexResp' = [status |-> "ok", code |-> 200, source |-> "mongodb",
                          body |-> [i \in 1..Len(page) |-> MongoEventRow(page[i])]]
    /\ UNCHANGED <<MONGO_AVAILABLE, TWILIO_AVAILABLE, csv_exists, now, csvfile,
                   events_collection, received, handlerVars, lastReport>>
    /\ eventsResp' = NoResponse
    /\ statusResp' = NoResponse

\* index(), lines 144-150 and 152: find raised, or no MongoDB: the dashboard
\* is rendered from the flat file (a missing cell renders as empty). The call
\* of get_events_from_csv is inside no try: its exception leaves index().
IndexFromCsv ==
    /\ IF HeaderMissing
       THEN indexResp' = [status |-> "unhandled", exception |-> "StopIteration",
                          source |-> "csv"]
       ELSE indexResp' = [status |-> "ok", code |-> 200, source |-> "csv",
                          body |-> get_events_from_csv(csvfile)]
    /\ UNCHANGED <<MONGO_AVAILABLE, TWILIO_AVAILABLE, csv_exists, now, csvfile,
                   events_collection, received, handlerVars, lastReport>>
    /\ eventsResp' = NoResponse
    /\ statusResp' = NoResponse

\* GET /.
index == IndexFromMongo \/ IndexFromCsv

Next ==
    \/ \E h \in Handlers :
        \/ ReceiveMalformed(h)
        \/ Receive(h)
        \/ Notify(h)
        \/ CsvOpen(h)
        \/ CsvOpenFails(h)
        \/ CsvWriteRow(h)
        \/ LogMongo(h)
    \/ Events
    \/ api_status
    \/ index

Spec == Init /\ [][Next]_vars

\* The steps of a handler thread that depend on nothing but the thread being
\* scheduled are eventually taken: opening and writing the local file, and
\* send_sms_alert without a Twilio client (line 78 returns at once). The two
\* calls that wait for a remote party, twilio_client.messages.create (line
\* 83, on the client built at line 37) and insert_one (line 120, on the
\* client built at line 48), are given no timeout anywhere in the source:
\* they return when the remote party answers, which nothing guarantees.
Fairness ==
    \A h \in Handlers :
        /\ WF_vars(CsvOpen(h) \/ CsvOpenFails(h))
        /\ WF_vars(CsvWriteRow(h))
        /\ WF_vars(~TWILIO_AVAILABLE /\ Notify(h))

FairSpec == Init /\ [][Next]_vars /\ Fairness

\* ------------------------------------------- stores found at startup
\* initialize_csv (lines 59-64) leaves an existing fall_events.csv as it is,
\* and the collection outlives the process: the read handlers meet what
\* earlier runs and earlier versions left. One event, as log_event stores it:
StoredRow == CsvRow(1, JTrue, JStr("real alert"), JStr("esp-7"), "Yes")
StoredDoc == EventDoc(1, 2, 1, JTrue, JStr("real alert"), JStr("esp-7"), "Yes")

\* Rows of the file: the event with all or only its first columns (the
\* "older records" of line 265), down to the blank line csv.reader reads as [].
StoredRows == { SubSeq(StoredRow, 1, n) : n \in 0..Len(CsvHeader) }

\* The file has no line at all, or the header and up to MaxStoredRows rows.
StoredFiles ==
    { <<>> } \cup
    { <<CsvHeader>> \o rows :
        rows \in UNION { [1..n -> StoredRows] : n \in 0..MaxStoredRows } }

\* Documents: the event with or without the fields events() reads with a
\* default (lines 287-289).
OptionalFields == {"alert_type", "device_id", "sms_sent"}
StoredDocs ==
    { [k \in (DOMAIN StoredDoc) \ lacking |-> StoredDoc[k]] :
        lacking \in SUBSET OptionalFields }
StoredCollections == { <<>> } \cup { <<d>> : d \in StoredDocs }

InitStored ==
    /\ MONGO_AVAILABLE \in BOOLEAN
    /\ TWILIO_AVAILABLE \in BOOLEAN
    /\ now = 0
    /\ csv_exists \in BOOLEAN
    /\ csvfile \in (IF csv_exists THEN StoredFiles ELSE { <<>> })
    /\ events_collection \in StoredCollections
    /\ received = 0
    /\ pc = [h \in Handlers |-> "idle"]
    /\ data = [h \in Handlers |-> NoPayload]
    /\ detected = [h \in Handlers |-> JFalse]
    /\ alert_type = [h \in Handlers |-> JStr("unknown")]
    /\ device_id = [h \in Handlers |-> JStr("unknown")]
    /\ timestamp = [h \in Handlers |-> 0]
    /\ sms_sent = [h \in Handlers |-> "No"]
    /\ response = [h \in Handlers |-> NoResponse]
    /\ sendCalls = [h \in Handlers |-> 0]
    /\ contacted = [h \in Handlers |-> FALSE]
    /\ sms_success = [h \in Handlers |-> FALSE]
    /\ rowsWritten = [h \in Handlers |-> {}]
    /\ docsWritten = [h \in Handlers |-> {}]
    /\ mongoOutcome = [h \in Handlers |-> "none"]
    /\ trace = [h \in Handlers |-> <<>>]
    /\ lastReport = NoReport
    /\ eventsResp = NoResponse
    /\ statusResp = NoResponse
    /\ indexResp = NoResponse

\* The read handlers over the stores found at startup.
NextStored == Events \/ api_status \/ index

SpecStored == InitStored /\ [][NextStored]_vars

\* ================================================================ claims
\* What a report submitted, with the documented default for an omitted field.
Submitted(h, key, default) ==
    IF data[h].kind = "object" THEN Get(data[h].fields, key, default) ELSE default

\* The notify decision of the report of h has been taken.
Decided(h) == pc[h] \in {"open", "write", "mongo", "done"}

\* The sms_sent the outcome of the gateway call stands for.
GatewayOutcome(h) ==
    IF sendCalls[h] = 0 THEN "No" ELSE IF sms_success[h] THEN "Yes" ELSE "Failed"

\* C1: for every report, send_sms_alert is invoked if and only if detect is
\* true and type is exactly "real alert", and never more than once.
C1_NotifyIffRealAlert ==
    \A h \in Handlers :
        /\ sendCalls[h] <= 1
        /\ Decided(h) =>
            (sendCalls[h] = 1 <=>
                (/\ Submitted(h, "detect", JFalse) = JTrue
                 /\ Submitted(h, "type", JStr("unknown")) = JStr("real alert")))

\* C2: the persisted sms_sent of a report is "Yes" exactly when the gateway
\* was invoked and returned true, "Failed" exactly when it was invoked and
\* returned false, "No" exactly when it was not invoked; and the sms_alert of
\* the success response equals the persisted sms_sent.
C2_SmsSentReflectsGateway ==
    \A h \in Handlers :
        /\ \A i \in rowsWritten[h] : csvfile[i][5] = GatewayOutcome(h)
        /\ \A d \in docsWritten[h] :
                events_collection[d].sms_sent = JStr(GatewayOutcome(h))
        /\ (pc[h] = "done" /\ response[h].status = "success") =>
                /\ rowsWritten[h] # {}
                /\ \A i \in rowsWritten[h] : response[h].sms_alert = csvfile[i][5]

\* A real alert the provider accepted, answered with sms_alert "Yes" and
\* stored in both stores.
C2_Witness ==
    \E h \in Handlers :
        /\ pc[h] = "done"
        /\ response[h].status = "success"
        /\ response[h].sms_alert = "Yes"
        /\ sms_success[h]
        /\ contacted[h]
        /\ rowsWritten[h] # {}
        /\ docsWritten[h] # {}

\* C3: log_event appends exactly one row to the flat file before any write
\* to the primary store is attempted, whether or not the primary store is
\* marked available (the row is missing only when opening the file raised);
\* an insert_one that throws is swallowed: the report is answered with
\* success (200) and its row is in the file.
C3_FallbackRowFirst ==
    \A h \in Handlers :
        /\ Cardinality(rowsWritten[h]) <= 1
        /\ (pc[h] = "mongo" \/ mongoOutcome[h] # "none") =>
                Cardinality(rowsWritten[h]) = 1
        /\ (pc[h] = "done" /\ data[h].kind = "object") =>
                \/ Cardinality(rowsWritten[h]) = 1
                \/ response[h] = ErrorResponse("OSError")
        /\ mongoOutcome[h] = "threw" =>
                /\ response[h].status = "success"
                /\ response[h].code = 200
                /\ \A i \in rowsWritten[h] : i <= Len(csvfile)

\* A report whose insert_one threw, answered with success.
C3_Witness ==
    \E h \in Handlers :
        /\ MONGO_AVAILABLE
        /\ pc[h] = "done"
        /\ mongoOutcome[h] = "threw"
        /\ response[h].status = "success"
        /\ Cardinality(rowsWritten[h]) = 1

\* A value read back equals the submitted one, as it is or as the text the
\* flat file keeps of it.
SameValue(returned, submitted) ==
    \/ returned = submitted
    \/ returned = JStr(CsvField(submitted))

\* C4: after a report was handled successfully, with no other report in
\* between, the first element GET /events returns has the report's
\* device_id, detection and alert_type, in every backend mode.
C4_ReadYourWrites ==
    (eventsResp.status # "none" /\ eventsResp.after.h # 0) =>
        /\ eventsResp.status = "ok"
        /\ Len(eventsResp.body) >= 1
        /\ SameValue(eventsResp.body[1].device_id, eventsResp.after.device_id)
        /\ SameValue(eventsResp.body[1].detection, eventsResp.after.detection)
        /\ SameValue(eventsResp.body[1].alert_type, eventsResp.after.alert_type)

\* C5: GET /events returns at most 20 items, and no returned event has a
\* later timestamp than an event listed before it, under every interleaving
\* of concurrent reports.
C5_NewestFirst ==
    eventsResp.status = "ok" =>
        /\ Len(eventsResp.body) <= PageSize
        /\ \A i, j \in 1..Len(eventsResp.body) :
                i < j => eventsResp.body[i].timestamp >= eventsResp.body[j].timestamp

\* C6: at no time are two requests inside the open-append / write-row /
\* close section of log_event.
C6_SerializedAppend == Cardinality({h \in Handlers : pc[h] = "write"}) <= 1

\* C7: an omitted detect, type or device_id is replaced by its default
\* (false, "unknown", "unknown") and the request succeeds (unless the file
\* cannot be opened); the report {"detect": false} is stored as detection
\* false, alert_type "unknown", device_id "unknown", sms_sent "No".
C7_OmittedFieldsDefaulted ==
    \A h \in Handlers :
        data[h].kind = "object" =>
            /\ "detect" \notin DOMAIN data[h].fields => detected[h] = JFalse
            /\ "type" \notin DOMAIN data[h].fields => alert_type[h] = JStr("unknown")
            /\ "device_id" \notin DOMAIN data[h].fields => device_id[h] = JStr("unknown")
            /\ pc[h] = "done" =>
                \/ response[h].status = "success"
                \/ response[h] = ErrorResponse("OSError")
            /\ DOMAIN data[h].fields = {"detect"} /\ data[h].fields.detect = JFalse =>
                /\ \A i \in rowsWritten[h] :
                        SubSeq(csvfile[i], 2, 5) = <<"False", "unknown", "unknown", "No">>
                /\ \A d \in docsWritten[h] :
                        /\ events_collection[d].detection = JFalse
                        /\ events_collection[d].alert_type = JStr("unknown")
                        /\ events_collection[d].device_id = JStr("unknown")
                        /\ events_collection[d].sms_sent = JStr("No")

\* The report {"detect": false}, answered with success and stored in both
\* stores.
C7_Witness ==
    \E h \in Handlers :
        /\ data[h].kind = "object"
        /\ DOMAIN data[h].fields = {"detect"}
        /\ pc[h] = "done"
        /\ response[h].status = "success"
        /\ rowsWritten[h] # {}
        /\ docsWritten[h] # {}

\* C8: a report with wrong-typed or null fields, or whose payload is not an
\* object, is still answered with success, and every persisted event has
\* non-null detection, alert_type, device_id and sms_sent.
C8_MalformedDefaulted ==
    /\ \A h \in Handlers :
            pc[h] = "done" =>
                \/ response[h].status = "success"
                \/ response[h] = ErrorResponse("OSError")
    /\ \A i \in 2..Len(csvfile) : \A k \in 2..5 : csvfile[i][k] # ""
    /\ \A d \in 1..Len(events_collection) :
            /\ events_collection[d].detection # JNull
            /\ events_collection[d].alert_type # JNull
            /\ events_collection[d].device_id # JNull
            /\ events_collection[d].sms_sent # JNull

\* C9: "Failed" is persisted only when the provider was contacted, and with
\* the gateway not initialized a real-alert report is persisted with "No".
C9_FailedOnlyWhenContacted ==
    \A h \in Handlers :
        \A i \in rowsWritten[h] :
            /\ csvfile[i][5] = "Failed" => contacted[h]
            /\ ~TWILIO_AVAILABLE => csvfile[i][5] = "No"

\* C10: no step changes MONGO_AVAILABLE or TWILIO_AVAILABLE, and while
\* MongoDB is unavailable every GET /status reports the csv database with
\* mongo_status "disconnected" and every read and count is served from the
\* flat file.
C10_BackendFixedAtStartup ==
    [][/\ MONGO_AVAILABLE' = MONGO_AVAILABLE
       /\ TWILIO_AVAILABLE' = TWILIO_AVAILABLE
       /\ ~MONGO_AVAILABLE =>
            /\ statusResp'.status = "online" =>
                /\ statusResp'.database = "csv"
                /\ statusResp'.mongo_status = "disconnected"
                /\ statusResp'.source = "csv"
                /\ statusResp'.records_count = Len(csvfile') - 1
            /\ eventsResp'.status # "none" => eventsResp'.source = "csv"]_vars

\* GET /status answered without MongoDB, after a report was logged.
C10_Witness ==
    /\ ~MONGO_AVAILABLE
    /\ statusResp.status = "online"
    /\ statusResp.database = "csv"
    /\ Len(csvfile) > 1

\* The five fields of the view of an event.
FiveFields == {"timestamp", "detection", "alert_type", "device_id", "sms_sent"}

\* The view has the five fields, and the default in each of the three
\* optional fields that the stored record lacks.
DefaultsFilled(view, lacksType, lacksDevice, lacksSms) ==
    /\ FiveFields \subseteq DOMAIN view
    /\ lacksType => view.alert_type = JStr("unknown")
    /\ lacksDevice => view.device_id = JStr("unknown")
    /\ lacksSms => view.sms_sent = JStr("No")

\* The row of the file and the document store the same event.
SameEvent(row, doc) ==
    /\ Len(row) = Len(CsvHeader)
    /\ FiveFields \subseteq DOMAIN doc
    /\ "timestamp_str" \in DOMAIN doc
    /\ row = CsvRow(doc.timestamp_str, doc.detection, doc.alert_type,
                    doc.device_id, doc.sms_sent.val)

\* The rows of the file after its first line, newest first.
NewestRows == IF Len(csvfile) = 0 THEN <<>> ELSE Reverse(Tail(csvfile))

\* C11: GET /events turns every stored record into the five-field view
\* without error: a row of the file of any shorter length and a document
\* lacking fields get alert_type "unknown", device_id "unknown" and sms_sent
\* "No" in the fields they lack, and an event read from one store has the
\* five values it has when read from the other.
C11_UniformView ==
    eventsResp.status # "none" =>
        /\ eventsResp.status = "ok"
        /\ eventsResp.source = "csv" =>
            /\ Len(eventsResp.body) = Len(NewestRows)
            /\ \A i \in 1..Len(NewestRows) :
                    /\ DefaultsFilled(eventsResp.body[i], Len(NewestRows[i]) < 3,
                                      Len(NewestRows[i]) < 4, Len(NewestRows[i]) < 5)
                    /\ \A d \in 1..Len(events_collection) :
                            SameEvent(NewestRows[i], events_collection[d]) =>
                                \A k \in FiveFields :
                                    eventsResp.body[i][k]
                                        = MongoEventDict(events_collection[d])[k]
        /\ eventsResp.source = "mongodb" =>
            \A i \in 1..Len(eventsResp.body) :
                \E d \in 1..Len(events_collection) :
                    /\ eventsResp.body[i]._id = events_collection[d]._id
                    /\ DefaultsFilled(eventsResp.body[i],
                            "alert_type" \notin DOMAIN events_collection[d],
                            "device_id" \notin DOMAIN events_collection[d],
                            "sms_sent" \notin DOMAIN events_collection[d])
                    /\ \A r \in 1..Len(NewestRows) :
                            SameEvent(NewestRows[r], events_collection[d]) =>
                                \A k \in FiveFields :
                                    eventsResp.body[i][k]
                                        = CsvEventDict(PadRow(NewestRows[r]))[k]

\* C12: an exception raised while a report is handled (a payload that is no
\* object, a file that cannot be opened, also after the notification was
\* sent) is answered with {status: "error", message} and HTTP 500; every
\* answered report has the success or this error response, none ends in an
\* unhandled fault, and after an error response the next report is received.
C12_CaughtAtBoundary ==
    \A h \in Handlers :
        pc[h] = "done" =>
            /\ \/ response[h].status = "success"
               \/ /\ response[h].status = "error"
                  /\ response[h].code = 500
                  /\ DOMAIN response[h] = {"status", "code", "message"}
            /\ (data[h].kind # "object" \/ rowsWritten[h] = {}) =>
                    response[h].status = "error"
            /\ (response[h].status # "success" /\ received < MaxReports) =>
                    ENABLED (\E o \in Handlers : Receive(o))

\* The notification was sent, then the file could not be opened: the report
\* is answered with the error response.
C12_Witness ==
    \E h \in Handlers :
        /\ pc[h] = "done"
        /\ sendCalls[h] = 1
        /\ sms_success[h]
        /\ rowsWritten[h] = {}
        /\ response[h] = ErrorResponse("OSError")
        /\ received < MaxReports

\* Step a of log_event was taken before step b, if both were taken.
Before(h, a, b) ==
    \A i, j \in 1..Len(trace[h]) :
        (trace[h][i] = a /\ trace[h][j] = b) => i < j

\* The steps the report of h has taken.
Taken(h) == { trace[h][i] : i \in 1..Len(trace[h]) }

C14_EventuallyAcknowledged ==
    \A h \in Handlers :
        Active(h) ~> (pc[h] = "done" /\ response[h].status \in {"success", "error"})

\* C15: no read raises: GET /events, GET / and GET /status are answered
\* from the primary store or, when it is unavailable or its read throws,
\* from the flat file, whatever the file holds (missing, no line, header
\* only, blank or short rows); no exception of the file read leaves the
\* handler or turns into an error response.
C15_ReadsNeverRaise ==
    /\ indexResp.status # "none" => indexResp.status = "ok"
    /\ eventsResp.status # "none" => eventsResp.status = "ok"
    /\ statusResp.status # "none" => statusResp.status = "online"

\* C16: the records_count of GET /status is the number of documents of the
\* primary store when it is available and its count succeeds, and otherwise
\* the number of lines of the flat file minus one for the header, which is
\* the number of events appended to it; it is never negative.
C16_RecordsCount ==
    statusResp.status = "online" =>
        /\ statusResp.source = "mongodb" =>
                /\ MONGO_AVAILABLE
                /\ statusResp.records_count = Len(events_collection)
        /\ (statusResp.source = "csv" /\ csv_exists) =>
                statusResp.records_count = Len(csvfile) - 1
        /\ (statusResp.source = "csv" /\ ~MONGO_AVAILABLE) =>
                statusResp.records_count = Len(NewestRows)
        /\ statusResp.records_count >= 0

\* seq is an initial part of longer.
IsPrefix(seq, longer) ==
    /\ Len(seq) <= Len(longer)
    /\ \A i \in 1..Len(seq) : longer[i] = seq[i]

\* The row the file holds for the event of a document.
RowOf(doc) ==
    CsvRow(doc.timestamp_str, doc.detection, doc.alert_type, doc.device_id,
           doc.sms_sent.val)

\* C17: every document of the primary store has a row in the flat file
\* with the same timestamp string, detection, alert_type, device_id and
\* sms_sent, appended before it by the same report; and no step shortens or
\* rewrites either store: each only grows at its end.
C17_PrimaryWithinFallback ==
    /\ [](/\ \A d \in 1..Len(events_collection) :
                \E i \in 2..Len(csvfile) : csvfile[i] = RowOf(events_collection[d])
          /\ \A h \in Handlers : \A d \in docsWritten[h] :
                \E i \in rowsWritten[h] : csvfile[i] = RowOf(events_collection[d]))
    /\ [][/\ IsPrefix(csvfile, csvfile')
          /\ IsPrefix(events_collection, events_collection')]_vars

\* Two reports stored in both stores, the clock having advanced between the
\* timestamp of a report and its insert.
C17_Witness ==
    /\ Len(events_collection) = 2
    /\ Len(csvfile) = 3
    /\ \E d \in 1..Len(events_collection) :
            events_collection[d].timestamp_str
                # get_current_timestamp(events_collection[d].timestamp)

====
